---- MODULE Spec2Model ----
(***************************************************************************)
(* A model of the book-update reconciliation of storage/tools.py           *)
(* (process_book_element and its helpers) over the catalog declared in     *)
(* storage/models.py.                                                      *)
(*                                                                         *)
(* Tables are sequences of rows; a row's primary key is its index, so the  *)
(* order of a table is the order of creation (Django's .first() on a model *)
(* without Meta.ordering orders by primary key).                           *)
(*                                                                         *)
(* Strings that are only compared for equality (book ids, alias schemes    *)
(* and values, file names) are TLA+ strings.  Version strings are          *)
(* sequences of one-character strings, because the code parses, formats    *)
(* and orders them.  A float is modelled by its number of tenths (1.0 is   *)
(* 10).  Book.description is written but never read by the code modelled   *)
(* here and is left out.                                                   *)
(***************************************************************************)
EXTENDS Integers, Sequences, FiniteSets, TLC

VARIABLES
    books,      \* Book rows: [book_id, version, title]
    aliases,    \* Alias rows: [book, scheme, value], book is a Book primary key
    usedAsId,   \* AliasUsedAsBookIdIssue rows: [alias_used, book_resolved, source_file]
    usedToResolve, \* AliasUsedToResolveBookIdIssue rows, same fields
    conflicting,   \* AliasPointsToConflictingBookIssue rows: [book, scheme, value, source_file]
    versionUnspecified, \* VersionUnspecifiedIssue rows: [book_id, source_file]
    call,       \* the last call of process_book_element: its arguments, locals and outcome
                \* (clean: no call so far has raised)
    pre,        \* history: the catalog as it was when the last call started
    run         \* the calls of process_book_element that run at the same time, one
                \* per process: position and locals (idle when calls run one by one)

vars == <<books, aliases, usedAsId, usedToResolve, conflicting, versionUnspecified, call, pre, run>>

Catalog ==
    [books |-> books, aliases |-> aliases, usedAsId |-> usedAsId,
     usedToResolve |-> usedToResolve, conflicting |-> conflicting,
     versionUnspecified |-> versionUnspecified]

\* Python's None, for a missing id attribute or a missing <title> element.
None == "None"

\* ---------------------------------------------------------------- bounds

\* Calls of process_book_element in one behaviour.
MaxCalls == 2

\* <alias> elements in one book element.
MaxAliases == 2

\* ---------------------------------------------------------------- strings

\* The characters of version texts, in ASCII order.
CharOrder == <<".", "0", "1", "2", "3", "4", "5", "6", "7", "8", "9", "x">>

Ord(c) == CHOOSE i \in 1..Len(CharOrder) : CharOrder[i] = c

IsDigit(c) == c \in {"0", "1", "2", "3", "4", "5", "6", "7", "8", "9"}

DigitVal(c) == Ord(c) - 2

DigitChar(d) == CharOrder[d + 2]

\* a < b as Python (and the database) compare strings.
StrLess(a, b) ==
    \E k \in 1..(Len(a) + 1) :
        /\ k <= Len(b)
        /\ \A j \in 1..(k - 1) : a[j] = b[j]
        /\ (k = Len(a) + 1 \/ Ord(a[k]) < Ord(b[k]))

\* The titles of the model, in string order ("" is the default of a CharField).
TitleOrder == <<"", "A title", "Book 1", "Book 2", "Book 3">>

TitleRank(t) == CHOOSE i \in 1..Len(TitleOrder) : TitleOrder[i] = t

RECURSIVE DigitsVal(_)
DigitsVal(s) ==
    IF s = <<>> THEN 0
    ELSE 10 * DigitsVal(SubSeq(s, 1, Len(s) - 1)) + DigitVal(s[Len(s)])

\* Whether Python's float() accepts the text.  A missing text (None, TypeError)
\* is the empty sequence here: the code catches TypeError and ValueError alike.
\* Texts with more than one fractional digit are outside the model.
Parses(text) ==
    LET dots == {i \in 1..Len(text) : text[i] = "."} IN
    /\ text # <<>>
    /\ Cardinality(dots) <= 1
    /\ \A i \in 1..Len(text) : i \in dots \/ IsDigit(text[i])
    /\ \A d \in dots : Len(text) - d <= 1 /\ Len(text) >= 2

\* float(text) of a text that parses: the number in tenths.
float(text) ==
    LET dots == {i \in 1..Len(text) : text[i] = "."} IN
    IF dots = {} THEN 10 * DigitsVal(text)
    ELSE LET d == CHOOSE i \in dots : TRUE
         IN  10 * DigitsVal(SubSeq(text, 1, d - 1)) + DigitsVal(SubSeq(text, d + 1, Len(text)))

RECURSIVE NatStr(_)
NatStr(n) ==
    IF n < 10 THEN <<DigitChar(n)>>
    ELSE Append(NatStr(n \div 10), DigitChar(n % 10))

\* str(x) of a float x: always with a fractional part ("1.0", "2.5", "10.0").
str(x) == NatStr(x \div 10) \o <<".", DigitChar(x % 10)>>

\* ---------------------------------------------------------------- queries

\* QuerySet.first() of a model without Meta.ordering (Alias): the matching row
\* of least primary key, 0 for None.
FirstByPk(keys) == IF keys = {} THEN 0 ELSE CHOOSE i \in keys : \A j \in keys : i <= j

\* Alias.objects.filter(scheme=scheme, value=value).first()
AliasFirst(cat, scheme, value) ==
    FirstByPk({i \in 1..Len(cat.aliases) :
                  cat.aliases[i].scheme = scheme /\ cat.aliases[i].value = value})

\* Book.objects.filter(book_id=book_id), as primary keys.
BooksWithId(cat, book_id) == {i \in 1..Len(cat.books) : cat.books[i].book_id = book_id}

\* Book.Meta.ordering = ["title", "version"]: row i comes before row j (the
\* version column is text, compared as text; rows equal on both are ordered by
\* primary key here, the database leaves their order open).
BookBefore(cat, i, j) ==
    LET a == cat.books[i]
        b == cat.books[j]
    IN  \/ TitleRank(a.title) < TitleRank(b.title)
        \/ a.title = b.title /\ StrLess(a.version, b.version)
        \/ a.title = b.title /\ a.version = b.version /\ i < j

\* Book.objects.filter(book_id=book_id).first(): the first row in Meta.ordering,
\* 0 for None.
BookFirst(cat, book_id) ==
    LET keys == BooksWithId(cat, book_id) IN
    IF keys = {} THEN 0
    ELSE CHOOSE i \in keys : \A j \in keys \ {i} : BookBefore(cat, i, j)

\* list(Book.objects.filter(book_id=book_id)): the rows in Meta.ordering.
RECURSIVE BookList(_, _)
BookList(cat, keys) ==
    IF keys = {} THEN <<>>
    ELSE LET i == CHOOSE k \in keys : \A j \in keys \ {k} : BookBefore(cat, k, j)
         IN  <<i>> \o BookList(cat, keys \ {i})

\* book.aliases.all() as a set of (scheme, value) pairs.
AliasPairsOf(cat, book) ==
    {<<cat.aliases[i].scheme, cat.aliases[i].value>> :
        i \in {j \in 1..Len(cat.aliases) : cat.aliases[j].book = book}}

\* objects.get_or_create(**row) of an issue table followed by save(): the row is
\* added unless a row with these fields exists.
GetOrCreate(table, row) ==
    IF \E i \in 1..Len(table) : table[i] = row THEN table ELSE Append(table, row)

\* ---------------------------------------------------------------- writes

\* The exceptions a catalog write raises; NoError for a statement that returns.
NoError == "ok"
IntegrityError == "IntegrityError"
MultipleObjectsReturned == "MultipleObjectsReturned"

\* Mutant of BookGetOrCreate: objects.create in place of objects.get_or_create.
BookGetOrCreate_create(cat, book_id, version) ==
    IF book_id = None THEN [cat |-> cat, book |-> 0, created |-> FALSE, err |-> IntegrityError]
    ELSE [cat |-> [cat EXCEPT !.books =
                      Append(@, [book_id |-> book_id, version |-> version, title |-> ""])],
          book |-> Len(cat.books) + 1, created |-> TRUE, err |-> NoError]

\* Book.objects.get_or_create(book_id=book_id, version=version): the row with
\* these fields, created with the default title when there is none.  book_id is
\* NOT NULL.  (get() raises when several rows match; no reachable catalog holds
\* two rows with one (book_id, version).)
BookGetOrCreate(cat, book_id, version) ==
    LET found == {i \in 1..Len(cat.books) :
                     cat.books[i].book_id = book_id /\ cat.books[i].version = version} IN
    IF found # {} THEN [cat |-> cat, book |-> FirstByPk(found), created |-> FALSE, err |-> NoError]
    ELSE IF book_id = None THEN [cat |-> cat, book |-> 0, created |-> FALSE, err |-> IntegrityError]
    ELSE [cat |-> [cat EXCEPT !.books =
                      Append(@, [book_id |-> book_id, version |-> version, title |-> ""])],
          book |-> Len(cat.books) + 1, created |-> TRUE, err |-> NoError]

\* book.save() with book.title = title: title is NOT NULL.
BookSave(cat, book, title) ==
    IF title = None THEN [cat |-> cat, err |-> IntegrityError]
    ELSE [cat |-> [cat EXCEPT !.books[book].title = title], err |-> NoError]

\* book.aliases.get_or_create(scheme=scheme, value=value): nothing when the book
\* owns the alias; otherwise an INSERT, which Alias.Meta.unique_together
\* (book, value) rejects when the book owns the value under another scheme.
AliasGetOrCreate(cat, book, scheme, value) ==
    IF \E i \in 1..Len(cat.aliases) :
          cat.aliases[i] = [book |-> book, scheme |-> scheme, value |-> value]
    THEN [cat |-> cat, err |-> NoError]
    ELSE IF \E i \in 1..Len(cat.aliases) :
          cat.aliases[i].book = book /\ cat.aliases[i].value = value
    THEN [cat |-> cat, err |-> IntegrityError]
    ELSE [cat |-> [cat EXCEPT !.aliases =
                      Append(@, [book |-> book, scheme |-> scheme, value |-> value])],
          err |-> NoError]

\* ---------------------------------------------------------------- tools.py

\* Python's truth value of a book id in "a or b".
Truthy(x) == x # None /\ x # ""

\* Mutant of _fetch_book_id_by_aliases: the loop does not return at the first
\* match, so the last matching <alias> decides.
RECURSIVE _fetch_book_id_by_aliases_no_return(_, _, _)
_fetch_book_id_by_aliases_no_return(cat, als, source_file) ==
    IF als = <<>> THEN [cat |-> cat, ret |-> None]
    ELSE LET existing_alias == AliasFirst(cat, Head(als).scheme, Head(als).value) IN
         IF existing_alias # 0
         THEN LET rest == _fetch_book_id_by_aliases_no_return(
                              [cat EXCEPT !.usedToResolve = GetOrCreate(@,
                                  [alias_used |-> existing_alias,
                                   book_resolved |-> cat.aliases[existing_alias].book,
                                   source_file |-> source_file])],
                              Tail(als), source_file)
              IN  IF rest.ret # None THEN rest
                  ELSE [cat |-> rest.cat,
                        ret |-> cat.books[cat.aliases[existing_alias].book].book_id]
         ELSE _fetch_book_id_by_aliases_no_return(cat, Tail(als), source_file)

RECURSIVE _fetch_book_id_by_aliases(_, _, _)
_fetch_book_id_by_aliases(cat, als, source_file) ==
    IF als = <<>> THEN [cat |-> cat, ret |-> None]
    ELSE LET existing_alias == AliasFirst(cat, Head(als).scheme, Head(als).value) IN
         IF existing_alias # 0
         THEN [cat |-> [cat EXCEPT !.usedToResolve = GetOrCreate(@,
                          [alias_used |-> existing_alias,
                           book_resolved |-> cat.aliases[existing_alias].book,
                           source_file |-> source_file])],
               ret |-> cat.books[cat.aliases[existing_alias].book].book_id]
         ELSE _fetch_book_id_by_aliases(cat, Tail(als), source_file)

\* Mutant of _fetch_book_id_by_scheme: objects.create in place of
\* objects.get_or_create.
_fetch_book_id_by_scheme_create(cat, scheme, source_file, value) ==
    LET alias == AliasFirst(cat, scheme, value) IN
    IF alias # 0
    THEN [cat |-> [cat EXCEPT !.usedAsId = Append(@,
                     [alias_used |-> alias,
                      book_resolved |-> cat.aliases[alias].book,
                      source_file |-> source_file])],
          ret |-> cat.books[cat.aliases[alias].book].book_id]
    ELSE [cat |-> cat, ret |-> None]

_fetch_book_id_by_scheme(cat, scheme, source_file, value) ==
    LET alias == AliasFirst(cat, scheme, value) IN
    IF alias # 0
    THEN [cat |-> [cat EXCEPT !.usedAsId = GetOrCreate(@,
                     [alias_used |-> alias,
                      book_resolved |-> cat.aliases[alias].book,
                      source_file |-> source_file])],
          ret |-> cat.books[cat.aliases[alias].book].book_id]
    ELSE [cat |-> cat, ret |-> None]

\* existing_books.sort(key=...): Python's stable sort, ascending in the key.
RECURSIVE SortByKey(_, _)
SortByKey(list, key) ==
    IF list = <<>> THEN <<>>
    ELSE LET init == SortByKey(SubSeq(list, 1, Len(list) - 1), key)
             x == list[Len(list)]
             n == Cardinality({i \in 1..Len(init) : key[init[i]] <= key[x]})
         IN  SubSeq(init, 1, n) \o <<x>> \o SubSeq(init, n + 1, Len(init))

\* Mutant of _infer_book_version: the first version of a new book is returned
\* as "1", not "1.0".
_infer_book_version_int(cat, book_id, filename, version) ==
    IF Parses(version) THEN [cat |-> cat, ret |-> str(float(version)), err |-> NoError]
    ELSE IF book_id = None
    THEN [cat |-> cat, ret |-> <<>>, err |-> IntegrityError]
    ELSE LET cat1 == [cat EXCEPT !.versionUnspecified = GetOrCreate(@,
                         [book_id |-> book_id, source_file |-> filename])]
             existing_books == BookList(cat1, BooksWithId(cat1, book_id))
             key == [x \in BooksWithId(cat1, book_id) |-> 0 - float(cat1.books[x].version)]
             sorted == SortByKey(existing_books, key)
         IN  IF Len(existing_books) = 0
             THEN [cat |-> cat1, ret |-> <<"1">>, err |-> NoError]
             ELSE [cat |-> cat1,
                   ret |-> str(float(cat1.books[sorted[Len(sorted)]].version) + 10),
                   err |-> NoError]

_infer_book_version(cat, book_id, filename, version) ==
    IF Parses(version) THEN [cat |-> cat, ret |-> str(float(version)), err |-> NoError]
    ELSE IF book_id = None
    THEN \* VersionUnspecifiedIssue.book_id is NOT NULL
         [cat |-> cat, ret |-> <<>>, err |-> IntegrityError]
    ELSE LET cat1 == [cat EXCEPT !.versionUnspecified = GetOrCreate(@,
                         [book_id |-> book_id, source_file |-> filename])]
             existing_books == BookList(cat1, BooksWithId(cat1, book_id))
             key == [x \in BooksWithId(cat1, book_id) |-> 0 - float(cat1.books[x].version)]
             sorted == SortByKey(existing_books, key)
         IN  IF Len(existing_books) = 0
             THEN [cat |-> cat1, ret |-> <<"1", ".", "0">>, err |-> NoError]
             ELSE [cat |-> cat1,
                   ret |-> str(float(cat1.books[sorted[Len(sorted)]].version) + 10),
                   err |-> NoError]

\* Mutant of _resolve_book_id: the ISBN-13 lookup comes before the ISBN-10 one.
_resolve_book_id_isbn13_first(cat, als, book_id, filename) ==
    IF BookFirst(cat, book_id) # 0 THEN [cat |-> cat, ret |-> book_id]
    ELSE LET a == _fetch_book_id_by_scheme(cat, "ISBN-13", filename, book_id) IN
         IF Truthy(a.ret) THEN a
         ELSE LET b == _fetch_book_id_by_scheme(a.cat, "ISBN-10", filename, book_id) IN
              IF Truthy(b.ret) THEN b
              ELSE LET c == _fetch_book_id_by_aliases(b.cat, als, filename) IN
                   IF Truthy(c.ret) THEN c
                   ELSE [cat |-> c.cat, ret |-> book_id]

\* Mutant of _resolve_book_id: the check for an existing book of the id is
\* missing.
_resolve_book_id_no_check(cat, als, book_id, filename) ==
    LET a == _fetch_book_id_by_scheme(cat, "ISBN-10", filename, book_id) IN
    IF Truthy(a.ret) THEN a
    ELSE LET b == _fetch_book_id_by_scheme(a.cat, "ISBN-13", filename, book_id) IN
         IF Truthy(b.ret) THEN b
         ELSE LET c == _fetch_book_id_by_aliases(b.cat, als, filename) IN
              IF Truthy(c.ret) THEN c
              ELSE [cat |-> c.cat, ret |-> book_id]

_resolve_book_id(cat, als, book_id, filename) ==
    IF BookFirst(cat, book_id) # 0 THEN [cat |-> cat, ret |-> book_id]
    ELSE LET a == _fetch_book_id_by_scheme(cat, "ISBN-10", filename, book_id) IN
         IF Truthy(a.ret) THEN a
         ELSE LET b == _fetch_book_id_by_scheme(a.cat, "ISBN-13", filename, book_id) IN
              IF Truthy(b.ret) THEN b
              ELSE LET c == _fetch_book_id_by_aliases(b.cat, als, filename) IN
                   IF Truthy(c.ret) THEN c
                   ELSE [cat |-> c.cat, ret |-> book_id]

\* Mutant of AliasLoop: an alias of another book is moved to the book of the
\* record (alias.book = book; alias.save()).
RECURSIVE AliasLoop_reassign(_, _, _, _, _)
AliasLoop_reassign(cat, als, book, book_id, filename) ==
    IF als = <<>> THEN [cat |-> cat, err |-> NoError]
    ELSE LET scheme == Head(als).scheme
             value == Head(als).value
             alias == AliasFirst(cat, scheme, value)
         IN  IF alias # 0 /\ cat.books[cat.aliases[alias].book].book_id # book_id
             THEN AliasLoop_reassign(
                      [cat EXCEPT !.conflicting = GetOrCreate(@,
                                      [book |-> cat.aliases[alias].book, scheme |-> scheme,
                                       value |-> value, source_file |-> filename]),
                                  !.aliases[alias].book = book],
                      Tail(als), book, book_id, filename)
             ELSE LET r == AliasGetOrCreate(cat, book, scheme, value) IN
                  IF r.err # NoError THEN r
                  ELSE AliasLoop_reassign(r.cat, Tail(als), book, book_id, filename)

\* Mutant of AliasLoop: the check for an alias of another book is missing.
RECURSIVE AliasLoop_no_check(_, _, _, _, _)
AliasLoop_no_check(cat, als, book, book_id, filename) ==
    IF als = <<>> THEN [cat |-> cat, err |-> NoError]
    ELSE LET r == AliasGetOrCreate(cat, book, Head(als).scheme, Head(als).value) IN
         IF r.err # NoError THEN r
         ELSE AliasLoop_no_check(r.cat, Tail(als), book, book_id, filename)

\* Mutant of AliasLoop: an alias of another book is skipped without an issue.
RECURSIVE AliasLoop_no_issue(_, _, _, _, _)
AliasLoop_no_issue(cat, als, book, book_id, filename) ==
    IF als = <<>> THEN [cat |-> cat, err |-> NoError]
    ELSE LET alias == AliasFirst(cat, Head(als).scheme, Head(als).value) IN
         IF alias # 0 /\ cat.books[cat.aliases[alias].book].book_id # book_id
         THEN AliasLoop_no_issue(cat, Tail(als), book, book_id, filename)
         ELSE LET r == AliasGetOrCreate(cat, book, Head(als).scheme, Head(als).value) IN
              IF r.err # NoError THEN r
              ELSE AliasLoop_no_issue(r.cat, Tail(als), book, book_id, filename)

\* The loop of _process_book_aliases over the <alias> elements (lines 138-155).
RECURSIVE AliasLoop(_, _, _, _, _)
AliasLoop(cat, als, book, book_id, filename) ==
    IF als = <<>> THEN [cat |-> cat, err |-> NoError]
    ELSE LET scheme == Head(als).scheme
             value == Head(als).value
             alias == AliasFirst(cat, scheme, value)
         IN  IF alias # 0 /\ cat.books[cat.aliases[alias].book].book_id # book_id
             THEN AliasLoop(
                      [cat EXCEPT !.conflicting = GetOrCreate(@,
                          [book |-> cat.aliases[alias].book, scheme |-> scheme,
                           value |-> value, source_file |-> filename])],
                      Tail(als), book, book_id, filename)
             ELSE LET r == AliasGetOrCreate(cat, book, scheme, value) IN
                  IF r.err # NoError THEN r
                  ELSE AliasLoop(r.cat, Tail(als), book, book_id, filename)

\* missing_aliases of _process_book_aliases (lines 159-163), as a set.
MissingAliases(cat, book, book_id) ==
    AliasPairsOf(cat, BookFirst(cat, book_id)) \ AliasPairsOf(cat, book)

\* The loop over missing_aliases (lines 165-166), in the order of the list.
RECURSIVE Backfill(_, _, _)
Backfill(cat, book, missing_aliases) ==
    IF missing_aliases = <<>> THEN [cat |-> cat, err |-> NoError]
    ELSE LET r == AliasGetOrCreate(cat, book, Head(missing_aliases)[1], Head(missing_aliases)[2]) IN
         IF r.err # NoError THEN r
         ELSE Backfill(r.cat, book, Tail(missing_aliases))

\* _process_book_aliases with book.title = title; missing_aliases is the list
\* that list(set(...) - set(...)) of lines 160-163 produced.
_process_book_aliases(cat, als, book, title, book_id, filename, missing_aliases) ==
    LET r1 == AliasLoop(cat, als, book, book_id, filename)
        r2 == BookSave(r1.cat, book, title)
        r3 == Backfill(r2.cat, book, missing_aliases)
    IN  IF r1.err # NoError THEN r1
        ELSE IF r2.err # NoError THEN r2
        ELSE IF r3.err # NoError THEN r3
        ELSE BookSave(r3.cat, book, title)

\* The lists missing_aliases can be: a Python list made from a set has the
\* set's elements in an order the language leaves open.
MissingAliasLists(cat, als, book, title, book_id, filename) ==
    LET r1 == AliasLoop(cat, als, book, book_id, filename)
        r2 == BookSave(r1.cat, book, title)
    IN  IF r1.err # NoError \/ r2.err # NoError THEN {<<>>}
        ELSE LET missing == MissingAliases(r2.cat, book, book_id) IN
             {q \in [1..Cardinality(missing) -> missing] : \A m \in missing : \E i \in DOMAIN q : q[i] = m}

\* process_book_element(book_element, filename): the catalog it leaves, the
\* exception it raises (NoError when it returns) and its locals.
process_book_element(cat, book_element, filename, missing_aliases) ==
    LET r1 == _resolve_book_id(cat, book_element.aliases, book_element.id, filename)
        r2 == _infer_book_version(r1.cat, r1.ret, filename, book_element.version)
        r3 == BookGetOrCreate(r2.cat, r1.ret, r2.ret)
        r4 == _process_book_aliases(r3.cat, book_element.aliases, r3.book,
                                    book_element.title, r1.ret, filename, missing_aliases)
        r5 == BookSave(r4.cat, r3.book, book_element.title)
    IN  IF r2.err # NoError
        THEN [cat |-> r2.cat, err |-> r2.err, resolved_book_id |-> r1.ret, version |-> <<>>, book |-> 0]
        ELSE IF r3.err # NoError
        THEN [cat |-> r3.cat, err |-> r3.err, resolved_book_id |-> r1.ret, version |-> r2.ret, book |-> 0]
        ELSE IF r4.err # NoError
        THEN [cat |-> r4.cat, err |-> r4.err, resolved_book_id |-> r1.ret, version |-> r2.ret, book |-> r3.book]
        ELSE [cat |-> r5.cat, err |-> r5.err, resolved_book_id |-> r1.ret, version |-> r2.ret, book |-> r3.book]

\* The lists missing_aliases can be in a call of process_book_element.
ProcessMissingAliasLists(cat, book_element, filename) ==
    LET r1 == _resolve_book_id(cat, book_element.aliases, book_element.id, filename)
        r2 == _infer_book_version(r1.cat, r1.ret, filename, book_element.version)
        r3 == BookGetOrCreate(r2.cat, r1.ret, r2.ret)
    IN  IF r2.err # NoError \/ r3.err # NoError THEN {<<>>}
        ELSE MissingAliasLists(r3.cat, book_element.aliases, r3.book,
                               book_element.title, r1.ret, filename)

\* ---------------------------------------------------------------- inputs

\* The id attributes of book elements: a book id of setUp, an alias value of
\* setUp used as id, an id setUp does not know, and a missing attribute.
DeclaredIds == {"book-1", "1000000001", "12345", None}

\* The texts of <version>: missing (or empty), and "2".
VersionTexts == {<<>>, <<"2">>}

\* The texts of <title>: a title sorting before those of setUp, and a missing
\* element.
TitleTexts == {"A title", None}

\* The <alias> elements: the two aliases of setUp, and the value of the first
\* under the other ISBN scheme.
AliasElements ==
    {[scheme |-> "ISBN-10", value |-> "1000000001"],
     [scheme |-> "ISBN-10", value |-> "1000000002"],
     [scheme |-> "ISBN-13", value |-> "1000000001"]}

AliasLists == UNION {[1..n -> AliasElements] : n \in 0..MaxAliases}

SourceFiles == {"update-1.xml", "update-2.xml"}

BookElements == [id : DeclaredIds, version : VersionTexts, title : TitleTexts, aliases : AliasLists]

\* ---------------------------------------------------------------- the system

EmptyCatalog ==
    [books |-> <<>>, aliases |-> <<>>, usedAsId |-> <<>>, usedToResolve |-> <<>>,
     conflicting |-> <<>>, versionUnspecified |-> <<>>]

\* The catalog of TestTools.setUp.
setUp ==
    [EmptyCatalog EXCEPT
        !.books = <<[book_id |-> "book-1", version |-> <<"1", ".", "0">>, title |-> "Book 1"],
                    [book_id |-> "book-2", version |-> <<"1", ".", "0">>, title |-> "Book 2"]>>,
        !.aliases = <<[book |-> 1, scheme |-> "ISBN-10", value |-> "1000000001"],
                      [book |-> 2, scheme |-> "ISBN-10", value |-> "1000000002"]>>]

\* The processes that run process_book_element at the same time.
Procs == {1, 2}

\* The locals of a call of process_book_element on a record, before its first
\* statement.
Start(book_element, filename) ==
    [pc |-> "resolve", book_element |-> book_element, filename |-> filename,
     scheme |-> "", k |-> 0, ret |-> None,
     issue |-> [table |-> "", row |-> [source_file |-> ""]], after |-> "",
     resolved_book_id |-> None, version |-> <<>>, book |-> 0,
     pair |-> <<>>, saves |-> 0, existing_book |-> 0, existing_pairs |-> {},
     missing |-> <<>>, err |-> NoError]

\* No call runs in the process.
Idle ==
    [Start([id |-> None, version |-> <<>>, title |-> None, aliases |-> <<>>], "")
        EXCEPT !.pc = "idle"]

NoCall ==
    [n |-> 0,
     book_element |-> [id |-> None, version |-> <<>>, title |-> None, aliases |-> <<>>],
     filename |-> "", status |-> "none", resolved_book_id |-> None, version |-> <<>>, book |-> 0,
     clean |-> TRUE]

Init ==
    /\ \E cat \in {EmptyCatalog, setUp} :
        /\ books = cat.books
        /\ aliases = cat.aliases
        /\ usedAsId = cat.usedAsId
        /\ usedToResolve = cat.usedToResolve
        /\ conflicting = cat.conflicting
        /\ versionUnspecified = cat.versionUnspecified
        /\ pre = cat
    /\ call = NoCall
    /\ run = [p \in Procs |-> Idle]

\* Command.handle for one file: process_book_element runs on the file's book
\* element in autocommit mode, so what it wrote before an exception stays.
handle(book_element, filename) ==
    /\ call.n < MaxCalls
    /\ \E missing_aliases \in ProcessMissingAliasLists(Catalog, book_element, filename) :
        \E r \in {process_book_element(Catalog, book_element, filename, missing_aliases)} :
        /\ books' = r.cat.books
        /\ aliases' = r.cat.aliases
        /\ usedAsId' = r.cat.usedAsId
        /\ usedToResolve' = r.cat.usedToResolve
        /\ conflicting' = r.cat.conflicting
        /\ versionUnspecified' = r.cat.versionUnspecified
        /\ call' = [n |-> call.n + 1, book_element |-> book_element, filename |-> filename,
                    status |-> r.err, resolved_book_id |-> r.resolved_book_id,
                    version |-> r.version, book |-> r.book,
                    clean |-> call.clean /\ r.err = NoError]
        /\ pre' = Catalog
    /\ UNCHANGED run

Next == \E book_element \in BookElements, filename \in SourceFiles : handle(book_element, filename)

Spec == Init /\ [][Next]_vars

\* ------------------------------------------- the system, three books and
\* ------------------------------------------- a proprietary scheme

\* The catalog of setUp with a third book, which owns an ISBN-10 alias and an
\* alias of a proprietary scheme.
setUpThreeBooks ==
    [setUp EXCEPT
        !.books = Append(@, [book_id |-> "book-3", version |-> <<"1", ".", "0">>,
                             title |-> "Book 3"]),
        !.aliases = @ \o <<[book |-> 3, scheme |-> "ISBN-10", value |-> "1000000003"],
                           [book |-> 3, scheme |-> "PROP", value |-> "prop-3"]>>]

\* ISBN-13 aliases of book-2: one with the value of book-1's ISBN-10 alias, one
\* with a value of its own.  A catalog holds them after records for book-2 that
\* list them.
Isbn13Aliases ==
    <<[book |-> 2, scheme |-> "ISBN-13", value |-> "1000000001"],
      [book |-> 2, scheme |-> "ISBN-13", value |-> "9780000000002"]>>

\* The id attributes: the value that is an ISBN-10 alias of book-1 (and an
\* ISBN-13 alias of book-2), the value that is an ISBN-13 alias of book-2 only,
\* the value of the proprietary alias of book-3, and an id no catalog knows.
PrecedenceIds == {"1000000001", "9780000000002", "prop-3", "book-4"}

\* The <alias> elements: the two aliases of book-3 and an ISBN-13 alias of
\* book-2.
PrecedenceAliasElements ==
    {[scheme |-> "ISBN-10", value |-> "1000000003"],
     [scheme |-> "PROP", value |-> "prop-3"],
     [scheme |-> "ISBN-13", value |-> "9780000000002"]}

PrecedenceAliasLists == UNION {[1..n -> PrecedenceAliasElements] : n \in 0..MaxAliases}

PrecedenceBookElements ==
    [id : PrecedenceIds, version : VersionTexts, title : {"A title"},
     aliases : PrecedenceAliasLists]

InitPrecedence ==
    /\ \E keep \in SUBSET (1..Len(Isbn13Aliases)) :
        \E cat \in {[setUpThreeBooks EXCEPT !.aliases =
                        @ \o (IF 1 \in keep THEN <<Isbn13Aliases[1]>> ELSE <<>>)
                          \o (IF 2 \in keep THEN <<Isbn13Aliases[2]>> ELSE <<>>)]} :
        /\ books = cat.books
        /\ aliases = cat.aliases
        /\ usedAsId = cat.usedAsId
        /\ usedToResolve = cat.usedToResolve
        /\ conflicting = cat.conflicting
        /\ versionUnspecified = cat.versionUnspecified
        /\ pre = cat
    /\ call = NoCall
    /\ run = [p \in Procs |-> Idle]

NextPrecedence ==
    \E book_element \in PrecedenceBookElements, filename \in SourceFiles :
        handle(book_element, filename)

SpecPrecedence == InitPrecedence /\ [][NextPrecedence]_vars

\* ------------------------------------------- the system, two calls at the
\* ------------------------------------------- same time

\* Two processes run Command.handle at the same time, each on one file.  The
\* code opens no transaction and takes no lock, so every query and every write
\* is a step of its own and the steps of the two calls interleave.  A
\* get_or_create is a SELECT and, when that finds nothing, an INSERT.  The
\* save() after an issue's get_or_create writes the row back as it is, and the
\* fetch of alias.book reads a row whose book_id never changes: neither is a
\* step here.

\* The first statement of _infer_book_version (lines 101-107), once
\* _resolve_book_id has returned book_id: the version of the text, or the SELECT
\* of the VersionUnspecifiedIssue next.
Inferring(r, book_id) ==
    IF Parses(r.book_element.version)
    THEN [r EXCEPT !.resolved_book_id = book_id,
                   !.version = str(float(r.book_element.version)),
                   !.pc = "book_get"]
    ELSE [r EXCEPT !.resolved_book_id = book_id,
                   !.pc = "issue_get",
                   !.issue = [table |-> "versionUnspecified",
                              row |-> [book_id |-> book_id, source_file |-> r.filename]],
                   !.after = "list_books"]

\* _fetch_book_id_by_aliases from the k-th <alias> on (line 27); when the loop
\* ends it returns None and the or-chain gives the declared id (line 205).
ByAliases(r, k) ==
    IF k > Len(r.book_element.aliases) THEN Inferring(r, r.book_element.id)
    ELSE [r EXCEPT !.pc = "fetch_by_aliases", !.k = k]

\* The or-chain of _resolve_book_id after a lookup gave no id (lines 202-204).
NextScheme(r) ==
    IF r.scheme = "ISBN-10" THEN [r EXCEPT !.pc = "fetch_by_scheme", !.scheme = "ISBN-13"]
    ELSE ByAliases(r, 1)

\* The for statement of _process_book_aliases after the k-th <alias> (line 138),
\* then book.save() (line 156).
NextAlias(r) ==
    IF r.k < Len(r.book_element.aliases) THEN [r EXCEPT !.pc = "loop", !.k = @ + 1]
    ELSE [r EXCEPT !.pc = "save", !.saves = 1]

\* The for statement over missing_aliases (line 165), then book.save()
\* (line 168).
NextMissing(r) ==
    IF r.missing = <<>> THEN [r EXCEPT !.pc = "save", !.saves = 2]
    ELSE [r EXCEPT !.pc = "alias_get", !.pair = Head(r.missing),
                   !.missing = Tail(r.missing), !.after = "backfill"]

\* What follows an issue's get_or_create.
AfterIssue(r) ==
    IF r.after = "scheme_return"
    THEN IF Truthy(r.ret) THEN Inferring(r, r.ret) ELSE NextScheme(r)
    ELSE IF r.after = "aliases_return"
    THEN IF Truthy(r.ret) THEN Inferring(r, r.ret) ELSE Inferring(r, r.book_element.id)
    ELSE IF r.after = "list_books" THEN [r EXCEPT !.pc = "list_books"]
    ELSE NextAlias(r)

\* What follows book.aliases.get_or_create.
AfterAlias(r) == IF r.after = "backfill" THEN NextMissing(r) ELSE NextAlias(r)

\* What follows Book.objects.get_or_create with the book it gave (lines
\* 223-226).
EnterLoop(r, book) ==
    IF Len(r.book_element.aliases) = 0 THEN [r EXCEPT !.book = book, !.pc = "save", !.saves = 1]
    ELSE [r EXCEPT !.book = book, !.pc = "loop", !.k = 1]

\* The call raises.
Raise(r, err) == [r EXCEPT !.pc = "failed", !.err = err]

\* A statement of process p that writes: the catalog and the locals after it.
Commit(p, cat, r) ==
    /\ books' = cat.books
    /\ aliases' = cat.aliases
    /\ usedAsId' = cat.usedAsId
    /\ usedToResolve' = cat.usedToResolve
    /\ conflicting' = cat.conflicting
    /\ versionUnspecified' = cat.versionUnspecified
    /\ run' = [run EXCEPT ![p] = r]
    /\ UNCHANGED <<call, pre>>

\* A statement of process p that only reads.
Query(p, r) ==
    /\ run' = [run EXCEPT ![p] = r]
    /\ UNCHANGED <<books, aliases, usedAsId, usedToResolve, conflicting, versionUnspecified,
                   call, pre>>

\* existing_book = Book.objects.all().filter(book_id=book_id).first()
resolve_existing(p) ==
    /\ run[p].pc = "resolve"
    /\ IF BookFirst(Catalog, run[p].book_element.id) # 0
       THEN Query(p, Inferring(run[p], run[p].book_element.id))
       ELSE Query(p, [run[p] EXCEPT !.pc = "fetch_by_scheme", !.scheme = "ISBN-10"])

\* alias = Alias.objects.filter(scheme=scheme, value=value).first() of
\* _fetch_book_id_by_scheme
fetch_by_scheme(p) ==
    /\ run[p].pc = "fetch_by_scheme"
    /\ \E alias \in {AliasFirst(Catalog, run[p].scheme, run[p].book_element.id)} :
        IF alias # 0
        THEN Query(p, [run[p] EXCEPT
                 !.pc = "issue_get",
                 !.issue = [table |-> "usedAsId",
                            row |-> [alias_used |-> alias, book_resolved |-> aliases[alias].book,
                                     source_file |-> run[p].filename]],
                 !.ret = books[aliases[alias].book].book_id,
                 !.after = "scheme_return"])
        ELSE Query(p, NextScheme(run[p]))

\* existing_alias = Alias.objects.filter(scheme=scheme, value=value).first() of
\* _fetch_book_id_by_aliases
fetch_by_aliases(p) ==
    /\ run[p].pc = "fetch_by_aliases"
    /\ \E existing_alias \in {AliasFirst(Catalog, run[p].book_element.aliases[run[p].k].scheme,
                                         run[p].book_element.aliases[run[p].k].value)} :
        IF existing_alias # 0
        THEN Query(p, [run[p] EXCEPT
                 !.pc = "issue_get",
                 !.issue = [table |-> "usedToResolve",
                            row |-> [alias_used |-> existing_alias,
                                     book_resolved |-> aliases[existing_alias].book,
                                     source_file |-> run[p].filename]],
                 !.ret = books[aliases[existing_alias].book].book_id,
                 !.after = "aliases_return"])
        ELSE Query(p, ByAliases(run[p], run[p].k + 1))

\* The SELECT of an issue's get_or_create.
issue_get(p) ==
    /\ run[p].pc = "issue_get"
    /\ \E found \in {{i \in 1..Len(Catalog[run[p].issue.table]) :
                        Catalog[run[p].issue.table][i] = run[p].issue.row}} :
        IF found = {} THEN Query(p, [run[p] EXCEPT !.pc = "issue_insert"])
        ELSE IF Cardinality(found) > 1 THEN Query(p, Raise(run[p], MultipleObjectsReturned))
        ELSE Query(p, AfterIssue(run[p]))

\* The INSERT of an issue's get_or_create (VersionUnspecifiedIssue.book_id is
\* NOT NULL).
issue_insert(p) ==
    /\ run[p].pc = "issue_insert"
    /\ IF run[p].issue.table = "versionUnspecified" /\ run[p].issue.row.book_id = None
       THEN Query(p, Raise(run[p], IntegrityError))
       ELSE Commit(p, [Catalog EXCEPT ![run[p].issue.table] = Append(@, run[p].issue.row)],
                   AfterIssue(run[p]))

\* existing_books = list(Book.objects.all().filter(book_id=book_id)) and the
\* version inferred from it (lines 110-117).
list_books(p) ==
    /\ run[p].pc = "list_books"
    /\ \E keys \in {BooksWithId(Catalog, run[p].resolved_book_id)} :
        IF keys = {}
        THEN Query(p, [run[p] EXCEPT !.version = <<"1", ".", "0">>, !.pc = "book_get"])
        ELSE \E sorted \in {SortByKey(BookList(Catalog, keys),
                                      [x \in keys |-> 0 - float(books[x].version)])} :
                Query(p, [run[p] EXCEPT
                    !.version = str(float(books[sorted[Len(sorted)]].version) + 10),
                    !.pc = "book_get"])

\* The SELECT of Book.objects.get_or_create(book_id=resolved_book_id,
\* version=version).
book_get(p) ==
    /\ run[p].pc = "book_get"
    /\ \E found \in {{i \in 1..Len(books) :
                        /\ books[i].book_id = run[p].resolved_book_id
                        /\ books[i].version = run[p].version}} :
        IF found = {} THEN Query(p, [run[p] EXCEPT !.pc = "book_insert"])
        ELSE IF Cardinality(found) > 1 THEN Query(p, Raise(run[p], MultipleObjectsReturned))
        ELSE Query(p, EnterLoop(run[p], FirstByPk(found)))

\* The INSERT of Book.objects.get_or_create: nothing in the catalog rejects a
\* second row of one (book_id, version).
book_insert(p) ==
    /\ run[p].pc = "book_insert"
    /\ IF run[p].resolved_book_id = None THEN Query(p, Raise(run[p], IntegrityError))
       ELSE Commit(p, [Catalog EXCEPT !.books =
                          Append(@, [book_id |-> run[p].resolved_book_id,
                                     version |-> run[p].version, title |-> ""])],
                   EnterLoop(run[p], Len(books) + 1))

\* alias = Alias.objects.filter(scheme=scheme, value=value).first() of
\* _process_book_aliases and the test of line 145.
loop_lookup(p) ==
    /\ run[p].pc = "loop"
    /\ \E scheme \in {run[p].book_element.aliases[run[p].k].scheme},
          value \in {run[p].book_element.aliases[run[p].k].value} :
        \E alias \in {AliasFirst(Catalog, scheme, value)} :
            IF alias # 0 /\ books[aliases[alias].book].book_id # run[p].resolved_book_id
            THEN Query(p, [run[p] EXCEPT
                     !.pc = "issue_get",
                     !.issue = [table |-> "conflicting",
                                row |-> [book |-> aliases[alias].book, scheme |-> scheme,
                                         value |-> value, source_file |-> run[p].filename]],
                     !.after = "continue"])
            ELSE Query(p, [run[p] EXCEPT !.pc = "alias_get", !.pair = <<scheme, value>>,
                                         !.after = "continue"])

\* The SELECT of book.aliases.get_or_create(scheme=scheme, value=value).
alias_get(p) ==
    /\ run[p].pc = "alias_get"
    /\ IF \E i \in 1..Len(aliases) :
             aliases[i] = [book |-> run[p].book, scheme |-> run[p].pair[1], value |-> run[p].pair[2]]
       THEN Query(p, AfterAlias(run[p]))
       ELSE Query(p, [run[p] EXCEPT !.pc = "alias_insert"])

\* The INSERT of book.aliases.get_or_create: Alias.Meta.unique_together rejects
\* a second row of one (book, value), and get_or_create then gives the row of
\* the scheme if there is one by now.
alias_insert(p) ==
    /\ run[p].pc = "alias_insert"
    /\ IF \E i \in 1..Len(aliases) :
             aliases[i].book = run[p].book /\ aliases[i].value = run[p].pair[2]
       THEN IF \E i \in 1..Len(aliases) :
                  aliases[i] = [book |-> run[p].book, scheme |-> run[p].pair[1],
                                value |-> run[p].pair[2]]
            THEN Query(p, AfterAlias(run[p]))
            ELSE Query(p, Raise(run[p], IntegrityError))
       ELSE Commit(p, [Catalog EXCEPT !.aliases =
                          Append(@, [book |-> run[p].book, scheme |-> run[p].pair[1],
                                     value |-> run[p].pair[2]])],
                   AfterAlias(run[p]))

\* book.save() of lines 156, 168 and 228 (saves: which of the three).
save(p) ==
    /\ run[p].pc = "save"
    /\ IF run[p].book_element.title = None THEN Query(p, Raise(run[p], IntegrityError))
       ELSE Commit(p, [Catalog EXCEPT !.books[run[p].book].title = run[p].book_element.title],
                   IF run[p].saves = 1 THEN [run[p] EXCEPT !.pc = "existing_book"]
                   ELSE IF run[p].saves = 2 THEN [run[p] EXCEPT !.saves = 3]
                   ELSE [run[p] EXCEPT !.pc = "done"])

\* existing_book = Book.objects.filter(book_id=book_id).first()
existing_book_lookup(p) ==
    /\ run[p].pc = "existing_book"
    /\ Query(p, [run[p] EXCEPT !.existing_book = BookFirst(Catalog, run[p].resolved_book_id),
                               !.pc = "existing_aliases"])

\* existing_book.aliases.all()
existing_aliases_read(p) ==
    /\ run[p].pc = "existing_aliases"
    /\ Query(p, [run[p] EXCEPT !.existing_pairs = AliasPairsOf(Catalog, run[p].existing_book),
                               !.pc = "book_aliases"])

\* book.aliases.all(), and missing_aliases as a list in one of the orders of
\* the set.
book_aliases_read(p) ==
    /\ run[p].pc = "book_aliases"
    /\ \E missing \in {run[p].existing_pairs \ AliasPairsOf(Catalog, run[p].book)} :
        \E q \in {q \in [1..Cardinality(missing) -> missing] :
                     \A m \in missing : \E i \in DOMAIN q : q[i] = m} :
            Query(p, NextMissing([run[p] EXCEPT !.missing = q]))

\* The id attributes of the records of the two calls: a book id of setUp and the
\* value of its alias.
ConcurrentIds == {"book-1", "1000000001"}

\* The <aliases> of the records: none, the alias of book-1 in setUp, or the
\* alias of book-2.
ConcurrentAliasLists ==
    {<<>>,
     <<[scheme |-> "ISBN-10", value |-> "1000000001"]>>,
     <<[scheme |-> "ISBN-10", value |-> "1000000002"]>>}

ConcurrentBookElements ==
    [id : ConcurrentIds, version : VersionTexts, title : {"A title"},
     aliases : ConcurrentAliasLists]

\* The two calls start together on a catalog; the first file is update-1.xml,
\* the second that file again or another.
InitConcurrent ==
    /\ \E cat \in {EmptyCatalog, setUp} :
        /\ books = cat.books
        /\ aliases = cat.aliases
        /\ usedAsId = cat.usedAsId
        /\ usedToResolve = cat.usedToResolve
        /\ conflicting = cat.conflicting
        /\ versionUnspecified = cat.versionUnspecified
        /\ pre = cat
    /\ call = NoCall
    /\ \E e1, e2 \in ConcurrentBookElements, filename \in SourceFiles :
        run = [p \in Procs |-> IF p = 1 THEN Start(e1, "update-1.xml") ELSE Start(e2, filename)]

NextConcurrent ==
    \E p \in Procs :
        \/ resolve_existing(p)
        \/ fetch_by_scheme(p)
        \/ fetch_by_aliases(p)
        \/ issue_get(p)
        \/ issue_insert(p)
        \/ list_books(p)
        \/ book_get(p)
        \/ book_insert(p)
        \/ loop_lookup(p)
        \/ alias_get(p)
        \/ alias_insert(p)
        \/ save(p)
        \/ existing_book_lookup(p)
        \/ existing_aliases_read(p)
        \/ book_aliases_read(p)

SpecConcurrent == InitConcurrent /\ [][NextConcurrent]_vars

\* ---------------------------------------------------------------- properties

\* What the properties say of the last call.
Called == call.n > 0

Returned == Called /\ call.status = NoError

\* The last call returned, and so did every call before it.
ReturnedClean == Returned /\ call.clean

Declared == call.book_element.id

Resolved == call.resolved_book_id

VersionInferred == Called /\ ~Parses(call.book_element.version) /\ call.version # <<>>

\* The book_id of the book that owns an alias row of a catalog.
OwnerId(cat, alias) == cat.books[cat.aliases[alias].book].book_id

Count(table, row) == Cardinality({i \in 1..Len(table) : table[i] = row})

Maximum(S) == CHOOSE x \in S : \A y \in S : y <= x

\* The versions of a book id in a catalog, as numbers.
VersionsOf(cat, book_id) == {float(cat.books[i].version) : i \in BooksWithId(cat, book_id)}

\* C1: when the version text is missing and the catalog held versions of the
\* resolved id when the call started, the inferred version is the greatest of
\* them plus one, as a float string.  (Stated of runs in which every call
\* returned, so that no row left by a failed call is involved.)
C1_InferredIsMaxPlusOne ==
    (VersionInferred /\ ReturnedClean /\ BooksWithId(pre, Resolved) # {})
        => call.version = str(Maximum(VersionsOf(pre, Resolved)) + 10)

\* C2: when version N of the resolved book owned an alias as the call started,
\* and the call created version N+1 from a record that does not list the alias,
\* version N+1 owns the alias after the call.
C2_BackfillPreservesAlias ==
    ReturnedClean =>
        \A i \in BooksWithId(pre, Resolved) :
            (/\ call.book > Len(pre.books)
             /\ float(call.version) = float(pre.books[i].version) + 10)
            => \A p \in AliasPairsOf(pre, i) :
                  (\A k \in DOMAIN call.book_element.aliases :
                       <<call.book_element.aliases[k].scheme,
                         call.book_element.aliases[k].value>> # p)
                  => p \in AliasPairsOf(Catalog, call.book)

\* C3: a call that repeats the record and the file of the call before it, both
\* returning, creates no Book, Alias or issue row.
C3_Idempotent ==
    [][(/\ ReturnedClean
        /\ call'.n = call.n + 1
        /\ call'.status = NoError
        /\ call'.book_element = call.book_element
        /\ call'.filename = call.filename)
       => /\ Len(books') = Len(books)
          /\ Len(aliases') = Len(aliases)
          /\ Len(usedAsId') = Len(usedAsId)
          /\ Len(usedToResolve') = Len(usedToResolve)
          /\ Len(conflicting') = Len(conflicting)
          /\ Len(versionUnspecified') = Len(versionUnspecified)]_vars

\* The alias an id is resolved through when no book has the id: the ISBN-10
\* alias with the id as value, else the ISBN-13 one (0: none).
TrustedAlias(cat, id) ==
    IF AliasFirst(cat, "ISBN-10", id) # 0 THEN AliasFirst(cat, "ISBN-10", id)
    ELSE AliasFirst(cat, "ISBN-13", id)

\* The alias row the catalog lookup gives for the k-th <alias> of the record, as
\* the call started (0: none).
Held(k) == AliasFirst(pre, call.book_element.aliases[k].scheme, call.book_element.aliases[k].value)

RecordAliases == DOMAIN call.book_element.aliases

\* C4: when the record lists an alias that the catalog lookup finds on a book A
\* of another book_id than the resolved one, then after the call no book of the
\* resolved id owns the pair, the alias row is as it was (owned by A), and
\* exactly one AliasPointsToConflictingBookIssue (A, scheme, value, file) exists.
C4_ConflictingAliasNotAttached ==
    Returned =>
        \A k \in RecordAliases :
            (Held(k) # 0 /\ OwnerId(pre, Held(k)) # Resolved)
            => /\ \A i \in 1..Len(aliases) :
                    (/\ aliases[i].scheme = call.book_element.aliases[k].scheme
                     /\ aliases[i].value = call.book_element.aliases[k].value)
                    => OwnerId(Catalog, i) # Resolved
               /\ aliases[Held(k)] = pre.aliases[Held(k)]
               /\ Count(conflicting,
                        [book |-> pre.aliases[Held(k)].book,
                         scheme |-> call.book_element.aliases[k].scheme,
                         value |-> call.book_element.aliases[k].value,
                         source_file |-> call.filename]) = 1

C4_Witness ==
    Returned /\ \E k \in RecordAliases : Held(k) # 0 /\ OwnerId(pre, Held(k)) # Resolved

FirstMatch ==
    IF \E k \in RecordAliases : Held(k) # 0
    THEN CHOOSE k \in RecordAliases : Held(k) # 0 /\ \A j \in 1..(k - 1) : Held(j) = 0
    ELSE 0

NonConflicting(k) == Held(k) = 0 \/ OwnerId(pre, Held(k)) = Resolved

\* C7: when the version text is missing and no book has the resolved id, the
\* inferred version is "1.0", and a call that returns has created the Book
\* (resolved id, "1.0") which owns the record's non-conflicting aliases.
C7_FirstVersionIsOnePointZero ==
    (VersionInferred /\ BooksWithId(pre, Resolved) = {})
    => /\ call.version = <<"1", ".", "0">>
       /\ Returned =>
            /\ Len(books) = Len(pre.books) + 1
            /\ call.book = Len(books)
            /\ books[call.book] = [book_id |-> Resolved, version |-> <<"1", ".", "0">>,
                                   title |-> call.book_element.title]
            /\ \A k \in RecordAliases :
                  NonConflicting(k) =>
                      <<call.book_element.aliases[k].scheme,
                        call.book_element.aliases[k].value>> \in AliasPairsOf(Catalog, call.book)

\* A new book with two aliases and no version text, after an earlier call.
C7_Witness ==
    /\ Returned /\ VersionInferred /\ BooksWithId(pre, Resolved) = {}
    /\ call.n > 1 /\ Len(pre.books) > 0
    /\ \E j, k \in RecordAliases :
        call.book_element.aliases[j].value # call.book_element.aliases[k].value

\* C8: when a book has the declared id, the resolved id is the declared id and
\* the call creates no AliasUsedAsBookIdIssue and no
\* AliasUsedToResolveBookIdIssue.
C8_ExistingIdIsTrusted ==
    (Called /\ BooksWithId(pre, Declared) # {})
    => /\ Resolved = Declared
       /\ usedAsId = pre.usedAsId
       /\ usedToResolve = pre.usedToResolve

\* A book has the declared id and the record lists an alias of another book.
C8_Witness ==
    /\ Returned /\ BooksWithId(pre, Declared) # {}
    /\ \E k \in RecordAliases : Held(k) # 0 /\ OwnerId(pre, Held(k)) # Declared

\* C9: after a call that returns, (i) a resolved id that differs from the
\* declared id has an AliasUsedAsBookIdIssue or AliasUsedToResolveBookIdIssue of
\* the file whose book_resolved has the resolved id, (ii) a version text that
\* did not parse has a VersionUnspecifiedIssue (resolved id, file), and (iii)
\* every <alias> of the record is owned by the upserted book or has an
\* AliasPointsToConflictingBookIssue (scheme, value, file).
C9_IrregularDecisionsRecorded ==
    Returned =>
        /\ Resolved # Declared =>
             \/ \E i \in 1..Len(usedAsId) :
                    /\ usedAsId[i].source_file = call.filename
                    /\ books[usedAsId[i].book_resolved].book_id = Resolved
             \/ \E i \in 1..Len(usedToResolve) :
                    /\ usedToResolve[i].source_file = call.filename
                    /\ books[usedToResolve[i].book_resolved].book_id = Resolved
        /\ ~Parses(call.book_element.version) =>
             \E i \in 1..Len(versionUnspecified) :
                 versionUnspecified[i] = [book_id |-> Resolved, source_file |-> call.filename]
        /\ \A k \in RecordAliases :
             \/ <<call.book_element.aliases[k].scheme, call.book_element.aliases[k].value>>
                    \in AliasPairsOf(Catalog, call.book)
             \/ \E i \in 1..Len(conflicting) :
                    /\ conflicting[i].scheme = call.book_element.aliases[k].scheme
                    /\ conflicting[i].value = call.book_element.aliases[k].value
                    /\ conflicting[i].source_file = call.filename

\* A call that made all three kinds of decision.
C9_Witness ==
    /\ Returned /\ Resolved # Declared /\ ~Parses(call.book_element.version)
    /\ \E k \in RecordAliases : ~NonConflicting(k)

\* C10: a call that raises a catalog error leaves the catalog as it found it.
C10_FailedCallLeavesCatalog ==
    (Called /\ call.status = IntegrityError) => Catalog = pre

\* C11: a call whose record has no id attribute or no <title> is rejected, and
\* no Book, Alias or issue row is created or changed by it.
C11_InvalidRecordRejectedBeforeWrite ==
    (Called /\ (Declared = None \/ call.book_element.title = None))
        => /\ call.status # NoError
           /\ Catalog = pre

\* C12: no two Book rows share (book_id, version), after any sequence of calls
\* from a catalog in which none do.
C12_BookIdVersionUnique ==
    \A i, j \in 1..Len(books) :
        (books[i].book_id = books[j].book_id /\ books[i].version = books[j].version) => i = j

\* A call that returned, as every call before it, met the (book_id, version) of
\* its record in the catalog, next to another version of the book_id.
C12_Witness ==
    /\ ReturnedClean /\ call.book <= Len(pre.books)
    /\ \E i \in BooksWithId(pre, Resolved) : pre.books[i].version # call.version

\* The table new holds the rows of the table old, unchanged and under their
\* primary keys.
Extends(new, old) == Len(new) >= Len(old) /\ SubSeq(new, 1, Len(old)) = old

NewRows(new, old) == {new[i] : i \in (Len(old) + 1)..Len(new)}

\* The alias rows that have the declared id as value under a scheme that is
\* not an ISBN scheme, as the call started.
NonIsbnAliases ==
    {j \in 1..Len(pre.aliases) :
        pre.aliases[j].value = Declared /\ pre.aliases[j].scheme \notin {"ISBN-10", "ISBN-13"}}

\* ISBN-10 before ISBN-13: when no book has the declared id, which is the value
\* of an ISBN-10 alias of a book A and of an ISBN-13 alias of a book B, the
\* resolved id is A's, and the call creates no issue but the one for A's alias.
IsbnTenBeforeThirteen ==
    LET a == AliasFirst(pre, "ISBN-10", Declared)
        b == AliasFirst(pre, "ISBN-13", Declared)
    IN  (/\ Called /\ BooksWithId(pre, Declared) = {}
         /\ a # 0 /\ b # 0 /\ pre.aliases[a].book # pre.aliases[b].book)
        => /\ Resolved = OwnerId(pre, a)
           /\ NewRows(usedAsId, pre.usedAsId)
                 \subseteq {[alias_used |-> a, book_resolved |-> pre.aliases[a].book,
                             source_file |-> call.filename]}
           /\ usedToResolve = pre.usedToResolve

\* ISBN-13 before the record's aliases: when no book has the declared id, which
\* is the value of an ISBN-13 alias of a book B and of no ISBN-10 alias, and an
\* <alias> of the record is an alias of a third book, the resolved id is B's
\* and the call creates no AliasUsedToResolveBookIdIssue.
IsbnBeforeRecordAliases ==
    LET b == AliasFirst(pre, "ISBN-13", Declared) IN
    (/\ Called /\ BooksWithId(pre, Declared) = {}
     /\ AliasFirst(pre, "ISBN-10", Declared) = 0 /\ b # 0
     /\ \E k \in RecordAliases : Held(k) # 0 /\ pre.aliases[Held(k)].book # pre.aliases[b].book)
    => /\ Resolved = OwnerId(pre, b)
       /\ usedToResolve = pre.usedToResolve

C14_WitnessIsbn13 ==
    LET b == AliasFirst(pre, "ISBN-13", Declared) IN
    /\ Returned /\ BooksWithId(pre, Declared) = {}
    /\ AliasFirst(pre, "ISBN-10", Declared) = 0 /\ b # 0
    /\ \E k \in RecordAliases : Held(k) # 0 /\ pre.aliases[Held(k)].book # pre.aliases[b].book

\* The declared id is the value of a proprietary alias only, and no <alias> of
\* the record is in the catalog.
C14_WitnessNonIsbn ==
    /\ Returned /\ BooksWithId(pre, Declared) = {}
    /\ NonIsbnAliases # {} /\ TrustedAlias(pre, Declared) = 0 /\ FirstMatch = 0

\* Both calls have returned or raised.
Finished == \A p \in Procs : run[p].pc \in {"done", "failed"}

\* No two rows of the table have the same fields.
NoDuplicates(table) == \A i, j \in 1..Len(table) : table[i] = table[j] => i = j

\* The rows of a table without their primary keys: each with the number of
\* times it occurs.
BagOf(table) ==
    {<<table[i], Cardinality({j \in 1..Len(table) : table[j] = table[i]})>> : i \in 1..Len(table)}

\* A Book row and an Alias row as other rows refer to them, by fields and not
\* by primary key.
BookKey(cat, book) == <<cat.books[book].book_id, cat.books[book].version>>

AliasKey(cat, alias) ==
    <<BookKey(cat, cat.aliases[alias].book), cat.aliases[alias].scheme, cat.aliases[alias].value>>

\* A catalog up to the primary keys of its rows.
View(cat) ==
    [books |-> BagOf(cat.books),
     aliases |-> BagOf([i \in 1..Len(cat.aliases) |-> AliasKey(cat, i)]),
     usedAsId |-> BagOf([i \in 1..Len(cat.usedAsId) |->
                            <<AliasKey(cat, cat.usedAsId[i].alias_used),
                              BookKey(cat, cat.usedAsId[i].book_resolved),
                              cat.usedAsId[i].source_file>>]),
     usedToResolve |-> BagOf([i \in 1..Len(cat.usedToResolve) |->
                            <<AliasKey(cat, cat.usedToResolve[i].alias_used),
                              BookKey(cat, cat.usedToResolve[i].book_resolved),
                              cat.usedToResolve[i].source_file>>]),
     conflicting |-> BagOf([i \in 1..Len(cat.conflicting) |->
                            <<BookKey(cat, cat.conflicting[i].book), cat.conflicting[i].scheme,
                              cat.conflicting[i].value, cat.conflicting[i].source_file>>]),
     versionUnspecified |-> BagOf(cat.versionUnspecified)]

\* The catalogs a call of process_book_element can leave, run alone.
SerialAfter(cat, book_element, filename) ==
    {process_book_element(cat, book_element, filename, m).cat :
        m \in ProcessMissingAliasLists(cat, book_element, filename)}

\* The catalogs the two calls leave when one runs after the other, in either
\* order.
SerialCatalogs ==
    UNION {SerialAfter(c, run[2].book_element, run[2].filename) :
              c \in SerialAfter(pre, run[1].book_element, run[1].filename)}
    \cup
    UNION {SerialAfter(c, run[1].book_element, run[1].filename) :
              c \in SerialAfter(pre, run[2].book_element, run[2].filename)}

\* C15: under any interleaving of two calls, no two Book rows share (book_id,
\* version), no two issue rows have the same fields, two records without version
\* text resolved to one book id do not infer the same version, and the catalog
\* the calls leave is one that the calls leave in some serial order.
C15_InterleavingIsSerial ==
    /\ \A i, j \in 1..Len(books) :
          (books[i].book_id = books[j].book_id /\ books[i].version = books[j].version) => i = j
    /\ NoDuplicates(usedAsId) /\ NoDuplicates(usedToResolve)
    /\ NoDuplicates(conflicting) /\ NoDuplicates(versionUnspecified)
    /\ Finished =>
          /\ (/\ \A p \in Procs : run[p].pc = "done" /\ ~Parses(run[p].book_element.version)
               /\ run[1].resolved_book_id = run[2].resolved_book_id)
             => run[1].version # run[2].version
          /\ View(Catalog) \in {View(c) : c \in SerialCatalogs}

====
